---- MODULE Spec2Model ----
(***************************************************************************)
(* A model of jiashuhan/solar_position: the calendar arithmetic of         *)
(* dates.py, the Kepler solver of solar_motion.py and the twilight and     *)
(* observation-window searches of search.py.                               *)
(*                                                                         *)
(* Julian dates are Python floats in the source.  Here a Julian date is a  *)
(* record [d |-> whole days, cs |-> hundredths of a second past d], so     *)
(* that JD 2299160.5 is [d |-> 2299160, cs |-> 4320000].  On this grid     *)
(* the day arithmetic of dates.py is exact, as it is in double precision   *)
(* for every date within reach.                                            *)
(***************************************************************************)
EXTENDS Integers, Sequences, FiniteSets, TLC

VARIABLES
    op,       \* the function under evaluation
    args,     \* its arguments
    pc,       \* "start" before the call, "loop" inside its loop, "done" after it
    ret,      \* what the call returned or raised
    Y0, D0,   \* find_obs_window: the year and day of year of the day to visit
    Y1, D1,   \* find_obs_window: the year and day of year of end_date
    window,   \* find_obs_window: the events kept so far
    calls,    \* history: the calls of find_twilight made so far, each with its outcome
    E, dE,    \* ecc_anomaly: the eccentric anomaly and its last correction
    iters     \* history: the passes of ecc_anomaly's loop made so far

vars == <<op, args, pc, ret, Y0, D0, Y1, D1, window, calls, E, dE, iters>>

loopVars == <<Y0, D0, Y1, D1, window, calls>>

\* outside find_obs_window its locals do not exist
NoLoop ==
    /\ Y0 = 0 /\ D0 = 0 /\ Y1 = 0 /\ D1 = 0
    /\ window = <<>> /\ calls = <<>>

keplerVars == <<E, dE, iters>>

\* outside ecc_anomaly its locals do not exist
NoKepler == E = 0 /\ dE = 0 /\ iters = 0

(***************************************************************************)
(* Bounds of the model.                                                    *)
(***************************************************************************)
MinYear == 1580      \* earliest year drawn (before the Gregorian epoch)
MaxYear == 2004      \* latest year drawn
MaxDays == 154500    \* Julian dates are drawn up to this many days past JD 2299160

(***************************************************************************)
(* Results.  A Python call either returns a value or raises.               *)
(***************************************************************************)
Return(v) == [err |-> "none", val |-> v]
Raise(e) == [err |-> e, val |-> <<>>]

CsPerDay == 86400 * 100

(***************************************************************************)
(* dates.py                                                                *)
(***************************************************************************)
\* the Julian rule: the century exception forgotten
is_leap_julian(y) == y % 4 = 0

is_leap(y) == y % 4 = 0 /\ (y % 100 # 0 \/ y % 400 = 0)

\* months = [31, 28, ...]; if is_leap(y): months[1] += 1
months(y) ==
    <<31, IF is_leap(y) THEN 29 ELSE 28, 31, 30, 31, 30, 31, 31, 30, 31, 30, 31>>

\* sum(s[:n])
RECURSIVE sum(_, _)
sum(s, n) == IF n = 0 THEN 0 ELSE s[n] + sum(s, n - 1)

\* the day of the month checked against 1 only
ymd2d_day_unchecked(y, m, d) ==
    IF m >= 1 /\ m <= 12 /\ d >= 1
    THEN Return(sum(months(y), m - 1) + d - 1)
    ELSE Raise("AssertionError")

ymd2d(y, m, d) ==
    IF m >= 1 /\ m <= 12 /\ d >= 1 /\ d <= months(y)[m]
    THEN Return(sum(months(y), m - 1) + d - 1)
    ELSE Raise("AssertionError")

\* the walk without the step to the next month's first day
RECURSIVE yd2md_walk_no_rollover(_, _, _)
yd2md_walk_no_rollover(ms, m, d) ==
    IF m > 12 THEN Raise("IndexError")
    ELSE IF d > ms[m] THEN yd2md_walk_no_rollover(ms, m + 1, d - ms[m])
    ELSE Return(<<m, d + 1>>)

\* the while loop of yd2md and the branch after it
RECURSIVE yd2md_walk(_, _, _)
yd2md_walk(ms, m, d) ==
    IF m > 12 THEN Raise("IndexError")
    ELSE IF d > ms[m] THEN yd2md_walk(ms, m + 1, d - ms[m])
    ELSE IF d = ms[m] THEN Return(<<m + 1, 1>>)
    ELSE Return(<<m, d + 1>>)

yd2md(y, d) ==
    IF d >= 0 /\ (d < 365 \/ (d = 365 /\ months(y)[2] = 29))
    THEN yd2md_walk(months(y), 1, d)
    ELSE Raise("AssertionError")

\* int(b)
int(b) == IF b THEN 1 ELSE 0

\* the count without the term for a y1 that is itself a multiple of k
N_multiples_no_start(y1, y2, k) ==
    ((y2 - (y1 - (y1 % k))) \div k) - int(y2 % k = 0)

\* (y2 - (y1 - y1 % k)) // k - int(y2 % k == 0) + int(y1 % k == 0)
N_multiples(y1, y2, k) ==
    ((y2 - (y1 - (y1 % k))) \div k) - int(y2 % k = 0) + int(y1 % k = 0)

num_leap(y1, y2) ==
    IF y1 = y2 THEN Return(0)
    ELSE IF ~(y2 > y1) THEN Raise("AssertionError")
    ELSE LET N_julian_leap == N_multiples(y1, y2, 4)
             N_100 == N_multiples(y1, y2, 100)
             N_400 == N_multiples(y1, y2, 400)
             N_extra_leap == N_100 - N_400
         IN Return(N_julian_leap - N_extra_leap)

\* calendar2jd("YYYY-MM-DD"): the Julian date of 12:00:00 UTC of that date.
\* Y, M, D are the integers that split("-") and astype(int) read from the
\* string; a field that is no integer never gets this far.
calendar2jd(Y, M, D) ==
    IF ~(Y > 1582 \/ (Y = 1582 /\ (M > 10 \/ (M = 10 /\ D >= 15))))
    THEN Raise("AssertionError")
    ELSE LET N_days == ymd2d(Y, M, D)
             days_in_1582 == ymd2d(1582, 10, 15)
             N_year == Y - 1582
             N_leap == num_leap(1582, Y)
         IN IF N_days.err # "none" THEN N_days
            ELSE IF N_leap.err # "none" THEN N_leap
            ELSE Return([d |-> 2299161 + N_year * 365 + N_leap.val
                                 + N_days.val - days_in_1582.val,
                         cs |-> 0])

\* gregorian0 = 2299160.5, October 15, 1582 AD 00:00:00 UT1
gregorian0 == [d |-> 2299160, cs |-> CsPerDay \div 2]

\* a >= b on Julian dates
jd_ge(a, b) == a.d > b.d \/ (a.d = b.d /\ a.cs >= b.cs)

\* days // (365 + 1/4 - 3/400).  The double 365 + 1/4 - 3/400 exceeds
\* 146097/400 by 3/439804651110400, so the quotient is one less than
\* days * 400 // 146097 exactly when 146097 divides days, and equal otherwise.
floordiv_mean_year(days) ==
    IF days > 0 /\ (days * 400) % 146097 = 0
    THEN ((days * 400) \div 146097) - 1
    ELSE (days * 400) \div 146097

\* "%04.1f" % second, in tenths of a second: the nearest tenth; a value
\* midway between two tenths goes where its binary expansion falls (up).
format_second(cs, up) ==
    IF cs % 10 < 5 THEN cs \div 10
    ELSE IF cs % 10 > 5 THEN (cs \div 10) + 1
    ELSE IF up THEN (cs \div 10) + 1 ELSE cs \div 10

\* jd2calendar, lines 126-130: days_since + days_in_1582, the whole days from
\* January 1, 1582 00:00 to jd, and hms, the rest of jd in hundredths of a second
days_and_hms(jd) ==
    LET borrow == int(jd.cs < gregorian0.cs)
        hms == jd.cs - gregorian0.cs + borrow * CsPerDay
        days_since == jd.d - gregorian0.d - borrow
        days_in_1582 == ymd2d(1582, 10, 15).val
    IN [days |-> days_since + days_in_1582, hms |-> hms]

\* jd2calendar, lines 133-134: year_guess
year_guess(jd) == 1582 + floordiv_mean_year(days_and_hms(jd).days)

\* jd2calendar, lines 135-145: the year and the day of the year handed to yd2md
year_and_diff(jd) ==
    LET guess == year_guess(jd)
        N_year == guess - 1582
        year_guess_is_leap == is_leap(guess)
        N_leap == num_leap(1582, guess)
        \* diff = jd - hms - jd_guess, with
        \* jd_guess = gregorian0 - days_in_1582 + N_year * 365 + N_leap
        diff0 == days_and_hms(jd).days - N_year * 365 - N_leap.val
        under == diff0 >= 365 + int(year_guess_is_leap)
    IN IF N_leap.err # "none" THEN N_leap
       ELSE IF under
       THEN Return([year |-> guess + 1,
                    diff |-> diff0 - (365 + int(year_guess_is_leap)),
                    corrected |-> TRUE])
       ELSE Return([year |-> guess, diff |-> diff0, corrected |-> FALSE])

\* jd2calendar(jd): the fields of "%04d-%02d-%02d %02d:%02d:%04.1f"
jd2calendar(jd, up) ==
    IF ~jd_ge(jd, gregorian0) THEN Raise("AssertionError")
    ELSE LET yd == year_and_diff(jd)
             md == yd2md(yd.val.year, yd.val.diff)
             UT == days_and_hms(jd).hms
             hour == UT \div 360000
             minute == (UT % 360000) \div 6000
             second == UT % 6000
         IN IF yd.err # "none" THEN yd
            ELSE IF md.err # "none" THEN md
            ELSE Return([year |-> yd.val.year, month |-> md.val[1], day |-> md.val[2],
                         hour |-> hour, minute |-> minute,
                         second |-> format_second(second, up)])

(***************************************************************************)
(* The calls of the calendar functions, one per drawn input.               *)
(***************************************************************************)
Years == MinYear .. MaxYear

CalInputs ==
    [f : {"ymd2d", "calendar2jd"}, y : Years, m : 0 .. 13, d : 0 .. 32]
    \cup [f : {"yd2md"}, y : Years, n : -1 .. 367]
    \cup [f : {"num_leap"}, y1 : Years, y2 : Years]

InitCal ==
    /\ args \in CalInputs
    /\ op = args.f
    /\ pc = "start"
    /\ ret = Raise("pending")
    /\ NoLoop /\ NoKepler

Call_ymd2d ==
    /\ pc = "start" /\ op = "ymd2d"
    /\ ret' = ymd2d(args.y, args.m, args.d)
    /\ pc' = "done"
    /\ UNCHANGED <<keplerVars, op, args, loopVars>>

Call_yd2md ==
    /\ pc = "start" /\ op = "yd2md"
    /\ ret' = yd2md(args.y, args.n)
    /\ pc' = "done"
    /\ UNCHANGED <<keplerVars, op, args, loopVars>>

Call_num_leap ==
    /\ pc = "start" /\ op = "num_leap"
    /\ ret' = num_leap(args.y1, args.y2)
    /\ pc' = "done"
    /\ UNCHANGED <<keplerVars, op, args, loopVars>>

Call_calendar2jd ==
    /\ pc = "start" /\ op = "calendar2jd"
    /\ ret' = calendar2jd(args.y, args.m, args.d)
    /\ pc' = "done"
    /\ UNCHANGED <<keplerVars, op, args, loopVars>>

NextCal == Call_ymd2d \/ Call_yd2md \/ Call_num_leap \/ Call_calendar2jd

SpecCal == InitCal /\ [][NextCal]_vars

(***************************************************************************)
(* The calls of jd2calendar.  The fractions of a day drawn are noon (0),   *)
(* midnight and a few instants whose seconds round down, round up, fall    *)
(* midway, or round up to "60.0".                                          *)
(***************************************************************************)
JdFractions ==
    {0, 4319999, 4320000, 4320004, 4320005, 4320006, 4325996}

JdInputs ==
    [f : {"jd2calendar"}, jd : [d : 2299159 .. 2299160 + MaxDays, cs : JdFractions]]

InitJd ==
    /\ args \in JdInputs
    /\ op = args.f
    /\ pc = "start"
    /\ ret = Raise("pending")
    /\ NoLoop /\ NoKepler

Call_jd2calendar ==
    /\ pc = "start" /\ op = "jd2calendar"
    /\ \E up \in BOOLEAN : ret' = jd2calendar(args.jd, up)
    /\ pc' = "done"
    /\ UNCHANGED <<keplerVars, op, args, loopVars>>

NextJd == Call_jd2calendar

SpecJd == InitJd /\ [][NextJd]_vars

(***************************************************************************)
(* search.py                                                               *)
(*                                                                         *)
(* Angles (longitude, heading, tolerance, altitude, azimuth) are in tenths *)
(* of a degree.  The Sun's position comes from sun_location, which is the  *)
(* environment here: a sky is what sun_location yields at the N sampled    *)
(* instants of one window, alt being the altitude of the upper limb.       *)
(***************************************************************************)
NSamples == 4        \* N, the number of instants sampled in a window
WinYear == 2023      \* the first year of the date ranges drawn
MaxIter == 8         \* passes of ecc_anomaly's loop that are followed
MaxM == 359          \* mean anomalies are drawn from 0 .. MaxM degrees

\* round(n / d), d > 0: Python rounds a half to the even neighbour
round(n, d) ==
    LET q == n \div d
        r == n % d
    IN IF 2 * r < d THEN q
       ELSE IF 2 * r > d THEN q + 1
       ELSE IF q % 2 = 0 THEN q ELSE q + 1

abs(x) == IF x < 0 THEN -x ELSE x

\* jd + cs hundredths of a second
jd_add(jd, cs) ==
    LET t == jd.cs + cs
    IN [d |-> jd.d + (t \div CsPerDay), cs |-> t % CsPerDay]

\* calendar2jd("YYYY-MM-DD HH:00:00.0"), as find_twilight calls it: the
\* Julian date of that hour of that date
calendar2jd_hour(Y, M, D, H) ==
    LET noon == calendar2jd(Y, M, D)
    IN IF noon.err # "none" THEN noon
       ELSE Return(jd_add(noon.val, (H - 12) * 360000))

\* time_zone(lon): the offset from UTC in hours, and its label
time_zone(lon) == <<round(lon, 150), round(lon, 150)>>

\* np.linspace(lo, lo + 0.5, N, endpoint=False)[i - 1]: the end of the
\* window is not among the samples
linspace_no_endpoint(lo, N, i) == jd_add(lo, ((CsPerDay \div 2) * (i - 1)) \div N)

\* np.linspace(lo, lo + 0.5, N)[i - 1]
linspace(lo, N, i) == jd_add(lo, ((CsPerDay \div 2) * (i - 1)) \div (N - 1))

\* the intervals [time[i], time[i + 1]] across which alt changes sign
brackets(alt) ==
    {i \in 1 .. Len(alt) - 1 :
        (alt[i] <= 0 /\ alt[i + 1] >= 0) \/ (alt[i] >= 0 /\ alt[i + 1] <= 0)}

\* root_scalar(alt_interp, bracket=[time[0], time[-1]]).  Brent's method
\* raises ValueError when the interpolant has one sign at both ends of the
\* bracket, returns an end where it is zero, and otherwise closes in on a
\* root inside some interval i across which the samples change sign; the
\* root is placed where the chord of that interval crosses zero, num/den
\* of the way through it.  conv is sol.converged.
root_scalar(alt, i, conv) ==
    LET N == Len(alt)
    IN IF (alt[1] > 0 /\ alt[N] > 0) \/ (alt[1] < 0 /\ alt[N] < 0)
       THEN Raise("ValueError")
       ELSE IF alt[1] = 0
       THEN Return([converged |-> conv, i |-> 1, num |-> 0, den |-> 1])
       ELSE IF alt[N] = 0
       THEN Return([converged |-> conv, i |-> N - 1, num |-> 1, den |-> 1])
       ELSE IF alt[i] = 0
       THEN Return([converged |-> conv, i |-> i, num |-> 0, den |-> 1])
       ELSE Return([converged |-> conv, i |-> i, num |-> abs(alt[i]),
                    den |-> abs(alt[i]) + abs(alt[i + 1])])

\* the interpolant through ys, num/den of the way through interval i
interp(ys, i, num, den) == ys[i] + (((ys[i + 1] - ys[i]) * num) \div den)

\* a - b in hundredths of a second
jd_diff(a, b) == (a.d - b.d) * CsPerDay + (a.cs - b.cs)

\* lines 34-35: tz = round(lon / (360 / 24)); H = 12 - tz
local_noon_hour(lon) == 12 - round(lon, 150)

\* line 36: jd_local_noon = calendar2jd("%s %02d:00:00.0" % (calendar_date, H))
jd_local_noon(date, lon) ==
    calendar2jd_hour(date[1], date[2], date[3], local_noon_hour(lon))

\* lines 38-43: time = np.linspace(*sorted([jd_local_midnight, jd_local_noon]), N)
time(noon, rise, N) ==
    LET jd_local_midnight ==
            IF rise THEN jd_add(noon, -(CsPerDay \div 2))
            ELSE jd_add(noon, CsPerDay \div 2)
        \* sorted([jd_local_midnight, jd_local_noon])[0]
        lo == IF rise THEN jd_local_midnight ELSE noon
    IN [i \in 1 .. N |-> linspace(lo, N, i)]

\* find_twilight with the failed search swallowed: the start of the window
\* is returned when root_scalar raises or does not converge
find_twilight_default(date, lon, rise, N, sky, i) ==
    LET noon == calendar2jd_hour(date[1], date[2], date[3], 12 - round(lon, 150))
    IN IF noon.err # "none" THEN noon
       ELSE LET lo == IF rise THEN jd_add(noon.val, -(CsPerDay \div 2)) ELSE noon.val
                sol == root_scalar(sky.alt, i, sky.conv)
                r == IF sol.err = "none" /\ sol.val.converged THEN sol.val
                     ELSE [converged |-> TRUE, i |-> 1, num |-> 0, den |-> 1]
                t0 == ((CsPerDay \div 2) * (r.i - 1)) \div (N - 1)
                t1 == ((CsPerDay \div 2) * r.i) \div (N - 1)
            IN Return([jd |-> jd_add(linspace(lo, N, r.i),
                                     ((t1 - t0) * r.num) \div r.den),
                       alt |-> interp(sky.alt, r.i, r.num, r.den),
                       azi |-> interp(sky.azi, r.i, r.num, r.den)])

\* find_twilight(calendar_date, lat, lon, rise, N), under the sky that
\* sun_location shows over the window
find_twilight(date, lon, rise, N, sky, i) ==
    LET noon == jd_local_noon(date, lon)
    IN IF noon.err # "none" THEN noon
       ELSE LET tm == time(noon.val, rise, N)
                sol == root_scalar(sky.alt, i, sky.conv)
            IN IF sol.err # "none" THEN sol
               ELSE IF ~sol.val.converged THEN Raise("ValueError")
               ELSE LET r == sol.val
                        gap == jd_diff(tm[r.i + 1], tm[r.i])
                    IN Return([jd |-> jd_add(tm[r.i], (gap * r.num) \div r.den),
                               alt |-> interp(sky.alt, r.i, r.num, r.den),
                               azi |-> interp(sky.azi, r.i, r.num, r.den)])

\* the interval the root finder may close in on
root_intervals(alt) == IF brackets(alt) = {} THEN {1} ELSE brackets(alt)

(***************************************************************************)
(* The calls of find_twilight.                                             *)
(***************************************************************************)
TwilightSkies(N) ==
    [alt : [1 .. N -> {-60, 0, 90}],
     azi : {[i \in 1 .. N |-> z + 40 * i] : z \in {0, 2400}},
     conv : BOOLEAN]

TwilightInputs ==
    [f : {"find_twilight"},
     date : {<<2024, 12, 31>>, <<2025, 6, 21>>},
     lon : {-1800, -1725, -1172, 0, 75, 1800},
     rise : BOOLEAN,
     N : {NSamples},
     sky : TwilightSkies(NSamples)]

InitTwilight ==
    /\ args \in TwilightInputs
    /\ op = args.f
    /\ pc = "start"
    /\ ret = Raise("pending")
    /\ NoLoop /\ NoKepler

Call_find_twilight ==
    /\ pc = "start" /\ op = "find_twilight"
    /\ \E i \in root_intervals(args.sky.alt) :
          ret' = find_twilight(args.date, args.lon, args.rise, args.N, args.sky, i)
    /\ pc' = "done"
    /\ UNCHANGED <<keplerVars, op, args, loopVars>>

NextTwilight == Call_find_twilight

SpecTwilight == InitTwilight /\ [][NextTwilight]_vars

(***************************************************************************)
(* find_obs_window.  Enter is lines 87-93, Iterate one pass of the while   *)
(* loop (lines 95-105) and Leave the return of line 107.  An exception of  *)
(* a callee is not caught anywhere in find_obs_window: it ends the call.   *)
(***************************************************************************)
WindowSkies(N) ==
    {[alt |-> [i \in 1 .. N |-> a - 60 * (i - 1)],
      azi |-> [i \in 1 .. N |-> z],
      conv |-> TRUE] : a \in {90, 600}, z \in {2, 2894, 2895, 3599}}

\* date ranges about the turn of the year y
WindowRanges(y) ==
    [f : {"find_obs_window"},
     heading : {2, 2890},
     begin : {<<y, 12, 30>>, <<y, 12, 31>>, <<y + 1, 1, 1>>},
     end : {<<y, 12, 31>>, <<y + 1, 1, 1>>, <<y + 1, 1, 2>>, <<y + 1, 1, 3>>},
     lon : {-1172},
     rise : {FALSE},
     tol : {5},
     N : {NSamples}]

WindowInputs == WindowRanges(WinYear) \cup WindowRanges(WinYear + 1)

InitWindow ==
    /\ args \in WindowInputs
    /\ op = args.f
    /\ pc = "start"
    /\ ret = Raise("pending")
    /\ NoLoop /\ NoKepler

Window_Enter ==
    /\ pc = "start" /\ op = "find_obs_window"
    /\ LET d0 == ymd2d(args.begin[1], args.begin[2], args.begin[3])
           d1 == ymd2d(args.end[1], args.end[2], args.end[3])
       IN IF d0.err # "none" \/ d1.err # "none"
          THEN /\ ret' = (IF d0.err # "none" THEN d0 ELSE d1)
               /\ pc' = "done"
               /\ UNCHANGED <<keplerVars, op, args, loopVars>>
          ELSE /\ Y0' = args.begin[1] /\ D0' = d0.val
               /\ Y1' = args.end[1] /\ D1' = d1.val
               /\ window' = <<>>
               /\ pc' = "loop"
               /\ UNCHANGED <<keplerVars, op, args, ret, calls>>

\* the rollover without Y0 += 1: the day of the year wraps, the year stays
next_day_no_year(Y, D) ==
    IF D + 1 > 364 + int(is_leap(Y))
    THEN <<Y, (D + 1) % (364 + int(is_leap(Y)))>>
    ELSE <<Y, D + 1>>

\* D0 += 1; if D0 > 364 + int(is_leap(Y0)): D0 %= 364 + int(is_leap(Y0)); Y0 += 1
next_day(Y, D) ==
    IF D + 1 > 364 + int(is_leap(Y))
    THEN <<Y + 1, (D + 1) % (364 + int(is_leap(Y)))>>
    ELSE <<Y, D + 1>>

\* np.abs(heading - azi) < tol
within_tol(heading, azi, tol) == abs(heading - azi) < tol

Window_Iterate ==
    /\ pc = "loop" /\ op = "find_obs_window"
    /\ Y0 < Y1 \/ (Y0 = Y1 /\ D0 <= D1)
    /\ \E md \in {yd2md(Y0, D0)} :
          IF md.err # "none"
          THEN /\ ret' = md /\ pc' = "done"
               /\ UNCHANGED <<keplerVars, op, args, loopVars>>
          ELSE \E sky \in WindowSkies(args.N), i \in 1 .. args.N - 1, up \in BOOLEAN :
               /\ i \in root_intervals(sky.alt)
               /\ \E tw \in {find_twilight(<<Y0, md.val[1], md.val[2]>>, args.lon,
                                            args.rise, args.N, sky, i)} :
                  LET calendar_date == <<Y0, md.val[1], md.val[2]>>
                      tz == time_zone(args.lon)
                      kept == tw.err = "none"
                                /\ within_tol(args.heading, tw.val.azi, args.tol)
                      local == IF kept
                               THEN jd2calendar(jd_add(tw.val.jd, tz[1] * 360000), up)
                               ELSE Raise("unused")
                      next == next_day(Y0, D0)
                  IN /\ calls' = Append(calls,
                                    [date |-> calendar_date, err |-> tw.err,
                                     azi |-> IF tw.err = "none" THEN tw.val.azi ELSE -1])
                     /\ IF tw.err # "none"
                        THEN /\ ret' = tw /\ pc' = "done"
                             /\ UNCHANGED <<keplerVars, op, args, Y0, D0, Y1, D1, window>>
                        ELSE IF kept /\ local.err # "none"
                        THEN /\ ret' = local /\ pc' = "done"
                             /\ UNCHANGED <<keplerVars, op, args, Y0, D0, Y1, D1, window>>
                        ELSE /\ window' =
                                  IF kept
                                  THEN Append(window,
                                         [time |-> local.val, label |-> tz[2],
                                          alt |-> tw.val.alt, azi |-> tw.val.azi])
                                  ELSE window
                             /\ Y0' = next[1] /\ D0' = next[2]
                             /\ UNCHANGED <<keplerVars, op, args, pc, ret, Y1, D1>>

Window_Leave ==
    /\ pc = "loop" /\ op = "find_obs_window"
    /\ ~(Y0 < Y1 \/ (Y0 = Y1 /\ D0 <= D1))
    /\ ret' = Return(window)
    /\ pc' = "done"
    /\ UNCHANGED <<keplerVars, op, args, loopVars>>

NextWindow == Window_Enter \/ Window_Iterate \/ Window_Leave

SpecWindow == InitWindow /\ [][NextWindow]_vars

\* find_obs_window runs to its end: Python executes the next statement of a
\* call as long as there is one
SpecWindowFair == SpecWindow /\ WF_vars(NextWindow)

(***************************************************************************)
(* solar_motion.py: ecc_anomaly.                                           *)
(*                                                                         *)
(* Angles are in thousandths of a degree, the eccentricity in millionths,  *)
(* the tolerance in thousandths, sines and cosines in thousandths.         *)
(***************************************************************************)
\* 1000 * np.sin(x * np.pi / 180), x in thousandths of a degree, by
\* Bhaskara's rational approximation (within 0.002 of the sine)
sin(x) ==
    LET r == x % 360000
        h == IF r < 180000 THEN r ELSE r - 180000
        c == h \div 10
        p == (c * (18000 - c)) \div 1000
        v == (4000 * p) \div (405000 - p)
    IN IF r < 180000 THEN v ELSE -v

\* 1000 * np.cos(x * np.pi / 180)
cos(x) == sin(x + 90000)

\* e_deg = e * 180 / np.pi
e_deg(e) == (e * 57296) \div 1000000

\* np.abs(dE/E) > tolerance.  A zero E makes the quotient inf (greater than
\* any tolerance) or, when dE is zero too, nan (greater than none).
continue(E_, dE_, tolerance) ==
    IF E_ = 0 THEN dE_ # 0
    ELSE abs(dE_) * 1000 > tolerance * abs(E_)

\* one pass of the loop: <<E, dE>> after lines 98-100
pass(e, M, E_) ==
    LET dM == M - (E_ - ((e_deg(e) * sin(E_)) \div 1000))
        dE_ == (dM * 10000) \div (10000 - ((e * cos(E_)) \div 100000))
    IN <<E_ + dE_, dE_>>

KeplerInputs ==
    [f : {"ecc_anomaly"},
     e : {16709},
     M : {1000 * k : k \in 0 .. MaxM},
     tolerance : {2, 0, -1000}]

InitKepler ==
    /\ args \in KeplerInputs
    /\ op = args.f
    /\ pc = "start"
    /\ ret = Raise("pending")
    /\ NoLoop /\ NoKepler

\* lines 93-95
Ecc_Enter ==
    /\ pc = "start" /\ op = "ecc_anomaly"
    /\ E' = args.M + ((e_deg(args.e) * sin(args.M)) \div 1000)
    /\ dE' = 1000
    /\ iters' = 0
    /\ pc' = "loop"
    /\ UNCHANGED <<op, args, ret, loopVars>>

\* lines 97-100.  The source counts nothing: iters is the history of the
\* passes made, and the passes are followed up to MaxIter.
Ecc_Pass ==
    /\ pc = "loop" /\ op = "ecc_anomaly"
    /\ continue(E, dE, args.tolerance)
    /\ iters < MaxIter
    /\ E' = pass(args.e, args.M, E)[1]
    /\ dE' = pass(args.e, args.M, E)[2]
    /\ iters' = iters + 1
    /\ UNCHANGED <<op, args, pc, ret, loopVars>>

\* line 102
Ecc_Return ==
    /\ pc = "loop" /\ op = "ecc_anomaly"
    /\ ~continue(E, dE, args.tolerance)
    /\ ret' = Return(E)
    /\ pc' = "done"
    /\ UNCHANGED <<op, args, loopVars, keplerVars>>

NextKepler == Ecc_Enter \/ Ecc_Pass \/ Ecc_Return

SpecKepler == InitKepler /\ [][NextKepler]_vars

(***************************************************************************)
(* The Gregorian calendar, stated on its own: what the claims measure the  *)
(* code against.                                                           *)
(***************************************************************************)
GregorianLeap(y) == (y % 4 = 0 /\ y % 100 # 0) \/ y % 400 = 0

YearLength(y) == IF GregorianLeap(y) THEN 366 ELSE 365

MonthLength(y, m) ==
    IF m = 2 THEN (IF GregorianLeap(y) THEN 29 ELSE 28)
    ELSE IF m \in {4, 6, 9, 11} THEN 30 ELSE 31

ValidDate(y, m, d) == m \in 1 .. 12 /\ d \in 1 .. MonthLength(y, m)

OnOrAfterEpoch(y, m, d) ==
    y > 1582 \/ (y = 1582 /\ m > 10) \/ (y = 1582 /\ m = 10 /\ d >= 15)

\* the civil date that follows <<y, m, d>>
DayAfter(y, m, d) ==
    IF d < MonthLength(y, m) THEN <<y, m, d + 1>>
    ELSE IF m < 12 THEN <<y, m + 1, 1>>
    ELSE <<y + 1, 1, 1>>

\* the number of Gregorian leap years y with y1 <= y < y2
LeapYearsIn(y1, y2) == Cardinality({y \in y1 .. y2 - 1 : GregorianLeap(y)})

\* The civil timestamp ts, taken back to a Julian date (calendar2jd of its
\* date, less half a day, plus its time of day), is within 0.1 second of jd.
WithinTenthOfSecond(ts, jd) ==
    LET noon == calendar2jd(ts.year, ts.month, ts.day)
        tod == ts.hour * 360000 + ts.minute * 6000 + ts.second * 10
    IN /\ noon.err = "none"
       /\ noon.val.d - 1 - jd.d \in -1 .. 1
       /\ LET delta == (noon.val.d - 1 - jd.d) * CsPerDay
                         + (CsPerDay \div 2) + tod - jd.cs
          IN delta \in -10 .. 10

(***************************************************************************)
(* C1.  Julian-date/civil round trip: for every Julian date                *)
(* t >= 2299160.5, jd2calendar(t) succeeds and the timestamp it returns    *)
(* converts back to t within 0.1 second; and a Julian date that is some    *)
(* day's noon (calendar2jd(D)) comes back as D at 12:00:00.0.              *)
(***************************************************************************)
C1_RoundTrip ==
    (pc = "done" /\ op = "jd2calendar" /\ jd_ge(args.jd, gregorian0)) =>
        /\ ret.err = "none"
        /\ WithinTenthOfSecond(ret.val, args.jd)
        /\ args.jd.cs = 0 =>
              /\ ret.val.hour = 12 /\ ret.val.minute = 0 /\ ret.val.second = 0
              /\ calendar2jd(ret.val.year, ret.val.month, ret.val.day)
                    = Return(args.jd)

\* the same, away from the dates on which jd2calendar raises
C1_RoundTripWhenReturned ==
    (pc = "done" /\ op = "jd2calendar" /\ ret.err = "none") =>
        /\ WithinTenthOfSecond(ret.val, args.jd)
        /\ args.jd.cs = 0 =>
              /\ ret.val.hour = 12 /\ ret.val.minute = 0 /\ ret.val.second = 0
              /\ calendar2jd(ret.val.year, ret.val.month, ret.val.day)
                    = Return(args.jd)

(***************************************************************************)
(* C5.  calendar2jd agrees with direct day counting: 1582-10-15 is         *)
(* JD 2299161.0, and for every valid civil date D on or after it the day   *)
(* after D is one Julian day later.                                        *)
(***************************************************************************)
C5_DayCounting ==
    (pc = "done" /\ op = "calendar2jd" /\ ValidDate(args.y, args.m, args.d)
        /\ OnOrAfterEpoch(args.y, args.m, args.d)) =>
        LET next == DayAfter(args.y, args.m, args.d)
            after == calendar2jd(next[1], next[2], next[3])
        IN /\ ret.err = "none"
           /\ ret.val.cs = 0
           /\ <<args.y, args.m, args.d>> = <<1582, 10, 15>> => ret.val.d = 2299161
           /\ after.err = "none"
           /\ after.val = [d |-> ret.val.d + 1, cs |-> 0]

C5_Witness ==
    /\ pc = "done" /\ op = "calendar2jd" /\ ret.err = "none"
    /\ <<args.y, args.m, args.d>> = <<1700, 2, 28>>
    /\ calendar2jd(1700, 3, 1).val.d = ret.val.d + 1

(***************************************************************************)
(* C6.  For y1 <= y2, num_leap(y1, y2) is the number of Gregorian leap     *)
(* years y with y1 <= y < y2.                                              *)
(***************************************************************************)
C6_NumLeap ==
    (pc = "done" /\ op = "num_leap" /\ args.y1 <= args.y2) =>
        /\ ret.err = "none"
        /\ ret.val = LeapYearsIn(args.y1, args.y2)

C6_Witness ==
    /\ pc = "done" /\ op = "num_leap"
    /\ args.y1 = 1700 /\ args.y2 = 2001
    /\ ret = Return(73)

(***************************************************************************)
(* C7.  yd2md inverts ymd2d: for a valid (month, day) of y, ymd2d lies in  *)
(* 0 .. length of y - 1 and yd2md takes it back to (month, day); for a     *)
(* day of year n in that range, yd2md gives a valid (month, day) of y      *)
(* whose ymd2d is n.                                                       *)
(***************************************************************************)
C7_Inverse ==
    /\ (pc = "done" /\ op = "ymd2d" /\ ValidDate(args.y, args.m, args.d)) =>
           /\ ret.err = "none"
           /\ ret.val \in 0 .. YearLength(args.y) - 1
           /\ yd2md(args.y, ret.val) = Return(<<args.m, args.d>>)
    /\ (pc = "done" /\ op = "yd2md" /\ args.n \in 0 .. YearLength(args.y) - 1) =>
           /\ ret.err = "none"
           /\ ValidDate(args.y, ret.val[1], ret.val[2])
           /\ ymd2d(args.y, ret.val[1], ret.val[2]) = Return(args.n)

C7_Witness ==
    /\ pc = "done" /\ op = "yd2md"
    /\ args.y = 2000 /\ args.n = 365
    /\ ret = Return(<<12, 31>>)
    /\ ymd2d(2000, 12, 31) = Return(365)

(***************************************************************************)
(* C8.  Invalid dates are rejected, never clamped: calendar2jd raises for  *)
(* a date before 1582-10-15 and for a month or day out of range, and       *)
(* yd2md raises for a day of year at or beyond the year's length.          *)
(***************************************************************************)
C8_InvalidRejected ==
    /\ (pc = "done" /\ op = "calendar2jd"
          /\ (~ValidDate(args.y, args.m, args.d)
                \/ ~OnOrAfterEpoch(args.y, args.m, args.d))) =>
           ret.err # "none"
    /\ (pc = "done" /\ op = "yd2md" /\ args.n >= YearLength(args.y)) =>
           ret.err # "none"

C8_Witness ==
    /\ pc = "done" /\ op = "calendar2jd"
    /\ <<args.y, args.m, args.d>> = <<1900, 2, 29>>
    /\ ret.err = "AssertionError"

(***************************************************************************)
(* Dates in order, and the civil dates from one date to another.           *)
(***************************************************************************)
DateLE(a, b) ==
    \/ a[1] < b[1]
    \/ (a[1] = b[1] /\ a[2] < b[2])
    \/ (a[1] = b[1] /\ a[2] = b[2] /\ a[3] <= b[3])

RECURSIVE DatesFromTo(_, _)
DatesFromTo(a, b) ==
    IF ~DateLE(a, b) THEN <<>>
    ELSE <<a>> \o DatesFromTo(DayAfter(a[1], a[2], a[3]), b)

\* the distance between two compass angles, in tenths of a degree
CompassDistance(a, b) ==
    IF abs(a - b) <= 3600 - abs(a - b) THEN abs(a - b) ELSE 3600 - abs(a - b)

Returned == op = "find_obs_window" /\ pc = "done" /\ ret.err = "none"

(***************************************************************************)
(* C2.  find_obs_window calls find_twilight exactly once for every civil   *)
(* date from begin to end inclusive, in increasing order, none skipped or  *)
(* repeated, also across the turn of a year.                               *)
(***************************************************************************)
C2_EveryDateOnce ==
    Returned =>
        [i \in 1 .. Len(calls) |-> calls[i].date] = DatesFromTo(args.begin, args.end)

(***************************************************************************)
(* C3.  When find_twilight fails on some day, find_obs_window does not     *)
(* fail: it goes on and returns the events of the other days.              *)
(***************************************************************************)
C3_NoCrossingSkipped ==
    (op = "find_obs_window" /\ pc = "done"
        /\ \E i \in 1 .. Len(calls) : calls[i].err = "ValueError") =>
        ret.err = "none"

\* every sample of the altitude has the same sign
NoSignChange(alt) ==
    (\A i \in 1 .. Len(alt) : alt[i] > 0) \/ (\A i \in 1 .. Len(alt) : alt[i] < 0)

WithinOnCompass(c) == CompassDistance(args.heading, c.azi) < args.tol

(***************************************************************************)
(* C9.  find_obs_window returns, in the order of the days visited, one     *)
(* entry for each day whose twilight azimuth is within tol of the heading  *)
(* on the compass circle [0, 360), and no other entry.                     *)
(***************************************************************************)
C9_WithinTolerance ==
    Returned =>
        LET kept == SelectSeq(calls, WithinOnCompass)
        IN /\ Len(ret.val) = Len(kept)
           /\ \A i \in 1 .. Len(kept) : ret.val[i].azi = kept[i].azi

WithinOnLine(c) == abs(args.heading - c.azi) < args.tol

\* the same with the difference taken on the number line, as line 99 takes
\* it; each entry then also carries the local date of its day
C9_WithinToleranceOnLine ==
    Returned =>
        LET kept == SelectSeq(calls, WithinOnLine)
        IN /\ Len(ret.val) = Len(kept)
           /\ \A i \in 1 .. Len(kept) :
                 /\ ret.val[i].azi = kept[i].azi
                 /\ <<ret.val[i].time.year, ret.val[i].time.month,
                       ret.val[i].time.day>> = kept[i].date

(***************************************************************************)
(* C10.  ecc_anomaly always terminates: its loop is bounded by a cap on    *)
(* the passes, and a call that has not converged within the cap ends       *)
(* (with a NonConvergence failure) instead of making a further pass.       *)
(* Here: once MaxIter passes are made the loop asks for no further pass,   *)
(* and no pass that leaves E and dE as they were is followed by another.   *)
(***************************************************************************)
C10_BoundedIteration ==
    (op = "ecc_anomaly" /\ pc = "loop" /\ continue(E, dE, args.tolerance)) =>
        /\ iters < MaxIter
        /\ pass(args.e, args.M, E) # <<E, dE>>

\* with the default tolerance one pass is enough for the Earth's orbit
C10_EarthConverges ==
    (op = "ecc_anomaly" /\ args.tolerance = 2) =>
        /\ iters <= 1
        /\ pc = "done" =>
              /\ ret.err = "none"
              /\ abs(args.M - (ret.val - ((e_deg(args.e) * sin(ret.val)) \div 1000))) <= 2

\* the leap years of the Gregorian rule among the years 1 .. y - 1
LeapYearsBefore(y) == ((y - 1) \div 4) - ((y - 1) \div 100) + ((y - 1) \div 400)

\* the days from January 1, 1582 to January 1 of year y
DaysBeforeYear(y) == 365 * (y - 1582) + LeapYearsBefore(y) - LeapYearsBefore(1582)

\* the whole days from January 1, 1582 00:00 (JD 2298873.5) to jd
DaysSince1582(jd) ==
    IF jd.cs >= CsPerDay \div 2 THEN jd.d - 2298873 ELSE jd.d - 2298874

\* the civil year that holds the n-th day after January 1, 1582
TrueYear(n) ==
    CHOOSE y \in 1582 + (n \div 366) .. 1582 + (n \div 365) :
        DaysBeforeYear(y) <= n /\ n < DaysBeforeYear(y + 1)

(***************************************************************************)
(* C11.  In jd2calendar, for every Julian date from 2299160.5 on, the year *)
(* estimated from the mean Gregorian year is the true civil year or the    *)
(* year before it, never a later one, and the day of the year handed to    *)
(* yd2md after the correction lies in 0 .. length of that year - 1.        *)
(***************************************************************************)
C11_YearEstimate ==
    (op = "jd2calendar" /\ pc = "done" /\ jd_ge(args.jd, gregorian0)) =>
        LET true_year == TrueYear(DaysSince1582(args.jd))
            yd == year_and_diff(args.jd)
        IN /\ year_guess(args.jd) \in {true_year - 1, true_year}
           /\ yd.err = "none"
           /\ yd.val.diff \in 0 .. YearLength(yd.val.year) - 1

\* What the estimate does satisfy: it is within one year of the true year
\* on either side; it is a year late only on December 31 of a leap year,
\* and then the day of the year handed to yd2md is -1; everywhere else the
\* corrected year is the true year and the day of the year is the true one.
C11_EstimateWithinOneYear ==
    (op = "jd2calendar" /\ pc = "done" /\ jd_ge(args.jd, gregorian0)) =>
        LET n == DaysSince1582(args.jd)
            true_year == TrueYear(n)
            yd == year_and_diff(args.jd)
        IN /\ year_guess(args.jd) \in {true_year - 1, true_year, true_year + 1}
           /\ yd.err = "none"
           /\ IF year_guess(args.jd) = true_year + 1
              THEN /\ GregorianLeap(true_year)
                   /\ n = DaysBeforeYear(true_year + 1) - 1
                   /\ yd.val = [year |-> true_year + 1, diff |-> -1, corrected |-> FALSE]
                   /\ ret = Raise("AssertionError")
              ELSE /\ yd.val.year = true_year
                   /\ yd.val.diff = n - DaysBeforeYear(true_year)
                   /\ yd.val.corrected = (year_guess(args.jd) = true_year - 1)
                   /\ ret.err = "none"

\* a year-start and a year-end on which the estimate is corrected or exact
C11_BoundaryReached ==
    /\ op = "jd2calendar" /\ pc = "done" /\ ret.err = "none"
    /\ ret.val.month = 1 /\ ret.val.day = 1
    /\ year_and_diff(args.jd).val.corrected

\* a <= b on Julian dates
JdLE(a, b) == a.d < b.d \/ (a.d = b.d /\ a.cs <= b.cs)

\* the 12-hour window of a search about local noon: the half day before it
\* for a sunrise, the half day after it for a sunset
HalfDayWindow(noon, rise) ==
    IF rise THEN <<[d |-> IF noon.cs >= CsPerDay \div 2 THEN noon.d ELSE noon.d - 1,
                    cs |-> (noon.cs + CsPerDay \div 2) % CsPerDay], noon>>
    ELSE <<noon, [d |-> IF noon.cs >= CsPerDay \div 2 THEN noon.d + 1 ELSE noon.d,
                  cs |-> (noon.cs + CsPerDay \div 2) % CsPerDay]>>

DayBefore(y1, d1, y2, d2) == y1 < y2 \/ (y1 = y2 /\ d1 < d2)

\* one pass of the day loop after which the loop goes on
LoopPass == op = "find_obs_window" /\ pc = "loop" /\ pc' = "loop"

(***************************************************************************)
(* C13.  The day loop of find_obs_window terminates for every pair of      *)
(* valid begin and end dates: every pass moves (year, day of year) to a    *)
(* strictly later day of the calendar, the call comes to its end, and when *)
(* begin is later than end no pass runs and the empty list is returned.    *)
(***************************************************************************)
C13_LoopTerminates ==
    /\ [][LoopPass =>
            /\ DayBefore(Y0, D0, Y0', D0')
            /\ D0' \in 0 .. YearLength(Y0') - 1
            /\ Y1' = Y1 /\ D1' = D1]_vars
    /\ <>(pc = "done")
    /\ []((op = "find_obs_window" /\ pc = "done"
             /\ ~DateLE(args.begin, args.end))
            => (ret = Return(<<>>) /\ calls = <<>>))

\* a call that went through the turn of a year and returned
C13_Witness ==
    /\ Returned
    /\ Len(calls) >= 3
    /\ Y0 = args.begin[1] + 1
    /\ ~DayBefore(Y0, D0, Y1, D1) /\ <<Y0, D0>> # <<Y1, D1>>

(***************************************************************************)
(* C14.  For every longitude of [-180, 180] the UTC hour of local noon     *)
(* that find_twilight computes, H = 12 - round(lon / 15), is an hour of    *)
(* the day, 0 .. 23, so that "YYYY-MM-DD HH:00:00.0" is a civil time of    *)
(* the requested date.                                                     *)
(***************************************************************************)
C14_NoonHourValid ==
    (op = "find_twilight" /\ pc = "done" /\ args.lon \in -1800 .. 1800) =>
        local_noon_hour(args.lon) \in 0 .. 23

\* What the hour does satisfy: it lies in 0 .. 24, and it is 24 exactly for
\* the longitudes from -180 to -172.5, whose offset rounds to -12.
C14_NoonHourUpTo24 ==
    (op = "find_twilight" /\ pc = "done" /\ args.lon \in -1800 .. 1800) =>
        /\ local_noon_hour(args.lon) \in 0 .. 24
        /\ local_noon_hour(args.lon) = 24 <=> args.lon <= -1725

====
